---------------------------- MODULE Spec2Model ----------------------------
(***************************************************************************)
(* The hourly power-balance simulation of beow/EnergyBalance: the four     *)
(* scripts SE300wind.py, SwedenPowerBalance.py (reservoir variants) and    *)
(* SvK_EF_nuclear.py, SvK_EF_wind.py (hydrogen variants).                  *)
(*                                                                         *)
(* Numbers.  The scripts compute with real numbers (GW, GWh).  The model   *)
(* is exact fixed point: every power and energy is an integer number of    *)
(* thousandths (1 GW = 1000).  Three quantities need a finer unit to stay  *)
(* exact and are kept in it:                                               *)
(*   Hydrogen (reservoir variants)  1/100000 kton: 0.02 and 0.05 kton/GW   *)
(*                                  are 2 and 5 per thousandth of a GW;    *)
(*   dStore, dPower (SvK_EF_wind)   1/(1000*rtp_num) GWh, where            *)
(*                                  rtp_eff = rtp_num/rtp_den;             *)
(*   eStore (SvK_EF_wind)           1/219000 GWh: H2drain = 85/8.76 =      *)
(*                                  2125/219 GW.                           *)
(* A table cell that was never written (NaN in the data frame) is a row    *)
(* outside the column's DOMAIN; a column that does not exist is a name     *)
(* outside DOMAIN df.                                                      *)
(***************************************************************************)
EXTENDS Integers, Sequences, FiniteSets, TLC

VARIABLES
    variant,   \* which of the four scripts runs
    cfg,       \* the configuration constants of the script's main part
    run,       \* the run: data frame, loop position, locals, accumulators
    twin       \* a second run of the same script on the same input

vars == <<variant, cfg, run, twin>>

\* Rows of the data frame: labels 0 .. NumRows-1.
NumRows == 4

Rows == 0 .. (NumRows - 1)

Reservoir == {"SE300wind", "SwedenPowerBalance"}

HydrogenVariants == {"SvK_EF_nuclear", "SvK_EF_wind"}

Variants == Reservoir \cup HydrogenVariants

Min(a, b) == IF a <= b THEN a ELSE b

Max(a, b) == IF a >= b THEN a ELSE b

Min3(a, b, c) == Min(Min(a, b), c)

(***************************************************************************)
(* Column names that differ between the scripts.                           *)
(***************************************************************************)
BaseCol(v) == IF v \in Reservoir THEN "Nuclear" ELSE "Heat"

LoadCol(v) == IF v \in Reservoir THEN "Tout" ELSE "Consumption"

WaterCol(v) == IF v \in Reservoir THEN "Waout" ELSE "Water"

(***************************************************************************)
(* df.loc[row, col] = v: writes one cell; the column is created when it    *)
(* does not exist, with every other row unwritten.                         *)
(***************************************************************************)
SetCell(d, col, row, v) ==
    IF col \in DOMAIN d
    THEN [d EXCEPT ![col] = (row :> v) @@ @]
    ELSE (col :> (row :> v)) @@ d

(***************************************************************************)
(* Configuration: the constants the main part of each script sets, in      *)
(* thousandths.                                                            *)
(***************************************************************************)
SE300windCfg ==
    [name |-> "source", wlim |-> 13000, constexp |-> 4000, impl |-> 6000,
     expl |-> 10000 - 4000, Store0 |-> 20000000, elyscap |-> 0]

SwedenPowerBalanceCfg ==
    [name |-> "source", wlim |-> 13000, constexp |-> 4000, impl |-> 6000,
     expl |-> 10000 - 4000, Store0 |-> 20000000]

SvK_EF_nuclearCfg ==
    [name |-> "source", wlim |-> 13000, constexp |-> 0, impl |-> 2600,
     expl |-> 6000, elyscap |-> 0, flexmax |-> 9720]

SvK_EF_windCfg ==
    [name |-> "source", wlim_high |-> 13000, wlim_low |-> 2000,
     impl |-> 2600, expl |-> 6000, dStore_InCap |-> 730,
     dStore_OutCap |-> 6000, rtp_num |-> 2, rtp_den |-> 5,
     elyscap |-> 9350, flexmax |-> 9350]

SourceCfg(v) ==
    CASE v = "SE300wind" -> SE300windCfg
      [] v = "SwedenPowerBalance" -> SwedenPowerBalanceCfg
      [] v = "SvK_EF_nuclear" -> SvK_EF_nuclearCfg
      [] v = "SvK_EF_wind" -> SvK_EF_windCfg

\* The hydro maximum, whatever the script calls it.
WaterMax(v, c) == IF v = "SvK_EF_wind" THEN c.wlim_high ELSE c.wlim

\* The hydro minimum: the literal 2 of three scripts, wlim_low of the fourth.
WaterMin(v, c) == IF v = "SvK_EF_wind" THEN c.wlim_low ELSE 2000

(***************************************************************************)
(* Other configurations of the same scripts (the constants are the         *)
(* configuration surface): no interconnector, the three-hour scenario of   *)
(* the test plan, and the pumped-hydro parameters the comment of           *)
(* SvK_EF_wind.py lists.  The two "dry" configurations hand balance() a    *)
(* table whose Inflow column is not the one inflow() fills (every value of *)
(* which is at least 2.8) but a series with hours of no inflow, and a low  *)
(* Store0: the reservoir level at the start of the modelled window of      *)
(* hours.  With no inflow the loop reaches the levels 6, 1 and 0 from      *)
(* 20000 after 1538 hours of deficit at full hydro output                  *)
(* (20000 = 1538 * 13 + 6).                                                *)
(***************************************************************************)
Configs(v) ==
    {SourceCfg(v)} \cup
    {[SourceCfg(v) EXCEPT !.name = "no_interconnect", !.impl = 0, !.expl = 0]} \cup
    (IF v \in Reservoir
     THEN {[SourceCfg(v) EXCEPT !.name = "scenario3", !.wlim = 6000, !.impl = 0,
                                !.expl = 0, !.Store0 = 100000],
           [SourceCfg(v) EXCEPT !.name = "dry_low_store", !.Store0 = 1000],
           [SourceCfg(v) EXCEPT !.name = "dry_empty_no_interconnect", !.Store0 = 0,
                                !.impl = 0, !.expl = 0]}
     ELSE {}) \cup
    (IF v = "SvK_EF_wind"
     THEN {[SourceCfg(v) EXCEPT !.name = "pumped_hydro", !.dStore_InCap = 360,
                                !.rtp_num = 4, !.rtp_den = 5]}
     ELSE {})

(***************************************************************************)
(* The exogenous columns.  One row is a record of the four series the      *)
(* dispatch reads: Wind, the base load (Nuclear or Heat), the demand (Tout *)
(* or Consumption) and Inflow (reservoir variants), all non-negative.      *)
(***************************************************************************)
\* The least value of the formula of inflow(): 0.00012*x^2*exp(..) + 2.8.
InflowMin == 2800

Hour(w, b, l, f) == [Wind |-> w, Base |-> b, Load |-> l, Inflow |-> f]

HourInputs(v, c) ==
    IF v \in Reservoir
    THEN CASE c.name = "scenario3" ->
                {Hour(5000, 5000, 8000, InflowMin),
                 Hour(5000, 5000, 12000, InflowMin),
                 Hour(5000, 5000, 6000, InflowMin)}
           [] c.name \in {"dry_low_store", "dry_empty_no_interconnect"} ->
                {Hour(5000, 5000, 8000, 0), Hour(5000, 5000, 11000, 0),
                 Hour(5000, 5000, 12000, 3000)}
           [] c.name = "no_interconnect" ->
                {Hour(20000, 5000, 8000, InflowMin),
                 Hour(5000, 5000, 12000, 3000),
                 Hour(5000, 5000, 40000, InflowMin)}
           [] OTHER ->
                {Hour(20000, 5000, 8000, InflowMin),
                 Hour(5000, 5000, 14000, 3000),
                 Hour(5000, 5000, 40000, InflowMin),
                 Hour(5000, 5000, 11000, 3000)}
    ELSE IF v = "SvK_EF_nuclear"
    THEN {Hour(15000, 20000, 33000, 0), Hour(25000, 20000, 33000, 0),
          Hour(5000, 20000, 33000, 0), Hour(0, 20000, 40000, 0),
          Hour(0, 10000, 40000, 0)}
    ELSE {Hour(34000, 2000, 32000, 0), Hour(50000, 2000, 32000, 0),
          Hour(20000, 2000, 32000, 0), Hour(10000, 2000, 32000, 0),
          Hour(2000, 2000, 36000, 0), Hour(2000, 2000, 32000, 0)}

\* The data frame main hands to balance(): the exogenous columns, all rows.
InputFrame(v, rows) ==
    LET base == ("Wind" :> [k \in Rows |-> rows[k].Wind]) @@
                (BaseCol(v) :> [k \in Rows |-> rows[k].Base]) @@
                (LoadCol(v) :> [k \in Rows |-> rows[k].Load])
    IN  IF v \in Reservoir
        THEN ("Inflow" :> [k \in Rows |-> rows[k].Inflow]) @@ base
        ELSE base

\* The index of the frame: the labels of its rows.  A cell that was never
\* written (NaN) is a label outside the column's domain.
Index(d) == UNION {DOMAIN d[col] : col \in DOMAIN d}

\* len(df)
len(d) == Cardinality(Index(d))

\* normalize(): df.dropna(subset=['Wind'], inplace=True) drops the rows whose
\* wind reading is missing (the labels `missing`); the rows that remain keep
\* their labels, the index is not reset.
dropna(d, missing) ==
    [col \in DOMAIN d |-> [k \in (DOMAIN d[col]) \ missing |-> d[col][k]]]

(***************************************************************************)
(* The random generator.  Its state is the seed it was last seeded with    *)
(* (a negative number: the entropy the interpreter seeded it with at       *)
(* start) and the number of draws since.  random.random() returns a real   *)
(* in [0,1); the model draws from the values that keep the moving average  *)
(* exact in thousandths: new_rand = random()*imp_level*2 is one of         *)
(* (ema_old mod 100) + 100*j, j in 0..21, all in [0, 2200).                *)
(***************************************************************************)
Draws == {0, 21}

seed(g, s) == [seed |-> s, n |-> 0]

advance(g) == [g EXCEPT !.n = @ + 1]

new_rand(ema_old, j) == (ema_old % 100) + 100 * j

(***************************************************************************)
(* A run before balance() is called: the frame holds the exogenous         *)
(* columns; the locals and accumulators are not bound yet (0 here).  log   *)
(* keeps, for every iteration of the loop of balance(), the values its     *)
(* locals took; LogEntry is one iteration's.                               *)
(***************************************************************************)
LogEntry(load, ostore, water0, imp0, rand_imp, eload, flex, def_store) ==
    [load |-> load, ostore |-> ostore, water0 |-> water0, imp0 |-> imp0,
     rand_imp |-> rand_imp, eload |-> eload, flex |-> flex,
     def_store |-> def_store]

StartRun(frame, entropy) ==
    [df |-> frame, pc |-> "balance", i |-> 0,
     rng |-> [seed |-> entropy, n |-> 0], ema_old |-> 0,
     imp |-> 0, exp |-> 0, water |-> 0, rand_imp |-> 0,
     eload |-> 0, flex |-> 0, def_store |-> 0,
     curtail |-> 0, shortage |-> 0, curtailH2 |-> 0, H2out |-> 0,
     H2high |-> 0, H2low |-> 0, log |-> <<>>]

\* The loops of balance() and of main, range(1, len(df)): where the run is
\* after iteration k of the loop `loop` over the frame d, which `next`
\* follows.
AfterHour(d, k, loop, next) == IF k + 1 < len(d) THEN loop ELSE next

\* df.loc[i, col] for a label i the index does not hold raises KeyError,
\* which nothing catches: the script ends.
KeyError(r) == [r EXCEPT !.pc = "KeyError"]

(***************************************************************************)
(*                     SE300wind.py: balance()                             *)
(***************************************************************************)
\* balance() without random.seed(5): the generator keeps the state it had.
SE300wind_balance0_noseed(c, r) ==
    LET d1 == SetCell(r.df, "Store", 0, c.Store0)
        d2 == SetCell(d1, "Pout", 0, d1.Tout[0])
        d3 == SetCell(d2, "Waout", 0, 0)
        d4 == SetCell(d3, "Import", 0, 0)
        d5 == SetCell(d4, "Export", 0, 0)
        d6 == SetCell(d5, "Pnet", 0, d5.Tout[0] - c.constexp)
    IN  [r EXCEPT !.df = d6, !.ema_old = 1100,
                  !.pc = AfterHour(r.df, 0, "hour", "residual"), !.i = 1]

\* Row 0 and the parameters of the random sequence.
SE300wind_balance0(c, r) ==
    LET d1 == SetCell(r.df, "Store", 0, c.Store0)
        d2 == SetCell(d1, "Pout", 0, d1.Tout[0])
        d3 == SetCell(d2, "Waout", 0, 0)
        d4 == SetCell(d3, "Import", 0, 0)
        d5 == SetCell(d4, "Export", 0, 0)
        d6 == SetCell(d5, "Pnet", 0, d5.Tout[0] - c.constexp)
    IN  [r EXCEPT !.df = d6, !.rng = seed(r.rng, 5), !.ema_old = 1100,
                  !.pc = AfterHour(r.df, 0, "hour", "residual"), !.i = 1]

\* The water balance without the minimum production in an hour of excess.
SE300wind_water_nomin(c, wind, con, load, ostore) ==
    IF (wind + con) - load >= 0
    THEN 0
    ELSE IF (wind + con) - load <= -c.wlim
    THEN Min(c.wlim, ostore)
    ELSE Min(Max(load - (wind + con), 2000), ostore)

\* Water balance equations.
SE300wind_water(c, wind, con, load, ostore) ==
    IF (wind + con) - load >= 0
    THEN 2000
    ELSE IF (wind + con) - load <= -c.wlim
    THEN Min(c.wlim, ostore)
    ELSE Min(Max(load - (wind + con), 2000), ostore)

\* Imp/exp balance equations.
SE300wind_impexp(c, wind, con, load, water) ==
    IF (wind + con + water) - load <= 0
    THEN [imp |-> Min(load - (wind + con + water), c.impl), exp |-> 0]
    ELSE [imp |-> 0, exp |-> Min((wind + con + water) - load, c.expl)]

\* The exchange with the import left as the balance equations set it.
SE300wind_exchange_water_only(c, water, imp, ema_old, nr) ==
    LET ema == (3 * nr + 97 * ema_old) \div 100
        rand_imp0 == Max((ema - 1100) * 9 + 1100, 0)
        rand_imp == Min3(rand_imp0, water - 2000, c.impl - imp)
    IN  [water |-> water - rand_imp, imp |-> imp,
         ema |-> ema, rand_imp |-> rand_imp]

\* Water -> import exchange: imp_level = 1.1, alfa = 0.03.
SE300wind_exchange(c, water, imp, ema_old, nr) ==
    LET ema == (3 * nr + 97 * ema_old) \div 100
        rand_imp0 == Max((ema - 1100) * 9 + 1100, 0)
        rand_imp == Min3(rand_imp0, water - 2000, c.impl - imp)
    IN  [water |-> water - rand_imp, imp |-> imp + rand_imp,
         ema |-> ema, rand_imp |-> rand_imp]

\* The store update with the inflow forgotten.
SE300wind_store_noinflow(ostore, water, inflow) == ostore - water

\* Line 146: the new water store.
SE300wind_store(ostore, water, inflow) == ostore - water + inflow

\* The total power out with the export left in.
SE300wind_pout_noexp(wind, water, con, imp, exp) == wind + water + con + imp

\* Line 150: the total power out.
SE300wind_pout(wind, water, con, imp, exp) == wind + water + con + imp - exp

\* One iteration of the hourly loop, with the random draw j.
SE300wind_hour(c, r, j) ==
    IF r.i \notin DOMAIN r.df.Wind THEN KeyError(r) ELSE
    LET k == r.i
        wind == r.df.Wind[k]
        load == r.df.Tout[k]
        con == r.df.Nuclear[k]
        inflow == r.df.Inflow[k]
        ostore == r.df.Store[k - 1]
        water0 == SE300wind_water(c, wind, con, load, ostore)
        ie == SE300wind_impexp(c, wind, con, load, water0)
        x == SE300wind_exchange(c, water0, ie.imp, r.ema_old,
                                new_rand(r.ema_old, j))
        d1 == SetCell(r.df, "Store", k,
                      SE300wind_store(ostore, x.water, inflow))
        d2 == SetCell(d1, "Waout", k, x.water)
        d3 == SetCell(d2, "Import", k, x.imp)
        d4 == SetCell(d3, "Export", k, ie.exp)
        d5 == SetCell(d4, "Pout", k,
                      SE300wind_pout(wind, x.water, con, x.imp, ie.exp))
        d6 == SetCell(d5, "Pnet", k, wind + x.water + con + x.imp)
    IN  [r EXCEPT !.df = d6, !.rng = advance(r.rng), !.ema_old = x.ema,
                  !.imp = x.imp, !.exp = ie.exp, !.water = x.water,
                  !.rand_imp = x.rand_imp,
                  !.log = (k :> LogEntry(load, ostore, water0, ie.imp,
                                         x.rand_imp, 0, 0, 0)) @@ @,
                  !.pc = AfterHour(r.df, k, "hour", "residual"), !.i = k + 1]

(***************************************************************************)
(*                 SwedenPowerBalance.py: balance()                        *)
(***************************************************************************)
SwedenPowerBalance_balance0(c, r) ==
    LET d1 == SetCell(r.df, "Store", 0, c.Store0)
        d2 == SetCell(d1, "Pout", 0, d1.Tout[0])
        d3 == SetCell(d2, "Waout", 0, 0)
        d4 == SetCell(d3, "Import", 0, 0)
        d5 == SetCell(d4, "Export", 0, 0)
        d6 == SetCell(d5, "Pnet", 0, d5.Tout[0] - c.constexp)
    IN  [r EXCEPT !.df = d6, !.rng = seed(r.rng, 5), !.ema_old = 1100,
                  !.pc = AfterHour(r.df, 0, "hour", "residual"), !.i = 1]

SwedenPowerBalance_water(c, wind, con, load, ostore) ==
    LET vlim == c.wlim
    IN  IF load - (wind + con) <= 0
        THEN 2000
        ELSE IF load - (wind + con) >= c.wlim
        THEN Min(vlim, ostore)
        ELSE Min(Max(load - (wind + con), 2000), ostore)

\* The balance equations with the import at its limit in every hour of
\* deficit.
SwedenPowerBalance_impexp_full_import(c, wind, con, load, water) ==
    IF load - (wind + con + water) >= 0
    THEN [imp |-> c.impl, exp |-> 0]
    ELSE [imp |-> 0, exp |-> Min((wind + con + water) - load, c.expl)]

SwedenPowerBalance_impexp(c, wind, con, load, water) ==
    IF load - (wind + con + water) >= 0
    THEN [imp |-> Min(load - (wind + con + water), c.impl), exp |-> 0]
    ELSE [imp |-> 0, exp |-> Min((wind + con + water) - load, c.expl)]

SwedenPowerBalance_exchange(c, water, imp, ema_old, nr) ==
    LET ema == (3 * nr + 97 * ema_old) \div 100
        rand_imp0 == Max((ema - 1100) * 9 + 1100, 0)
        rand_imp == Min3(rand_imp0, water, c.impl - imp)
    IN  [water |-> water - rand_imp, imp |-> imp + rand_imp,
         ema |-> ema, rand_imp |-> rand_imp]

\* Line 145: the new water store.
SwedenPowerBalance_store(ostore, water, inflow) == ostore - water + inflow

SwedenPowerBalance_hour(c, r, j) ==
    IF r.i \notin DOMAIN r.df.Wind THEN KeyError(r) ELSE
    LET k == r.i
        wind == r.df.Wind[k]
        load == r.df.Tout[k]
        con == r.df.Nuclear[k]
        inflow == r.df.Inflow[k]
        ostore == r.df.Store[k - 1]
        water0 == SwedenPowerBalance_water(c, wind, con, load, ostore)
        ie == SwedenPowerBalance_impexp(c, wind, con, load, water0)
        x == SwedenPowerBalance_exchange(c, water0, ie.imp, r.ema_old,
                                         new_rand(r.ema_old, j))
        d1 == SetCell(r.df, "Store", k,
                      SwedenPowerBalance_store(ostore, x.water, inflow))
        d2 == SetCell(d1, "Waout", k, x.water)
        d3 == SetCell(d2, "Import", k, x.imp)
        d4 == SetCell(d3, "Export", k, ie.exp)
        d5 == SetCell(d4, "Pout", k, wind + x.water + con + x.imp - ie.exp)
        d6 == SetCell(d5, "Pnet", k, wind + x.water + con + x.imp)
    IN  [r EXCEPT !.df = d6, !.rng = advance(r.rng), !.ema_old = x.ema,
                  !.imp = x.imp, !.exp = ie.exp, !.water = x.water,
                  !.rand_imp = x.rand_imp,
                  !.log = (k :> LogEntry(load, ostore, water0, ie.imp,
                                         x.rand_imp, 0, 0, 0)) @@ @,
                  !.pc = AfterHour(r.df, k, "hour", "residual"), !.i = k + 1]


(***************************************************************************)
(* df[col] = a - b on whole columns: the column is replaced; a row that is *)
(* unwritten in either operand is unwritten in the result.                 *)
(***************************************************************************)
ColSub(a, b) == [k \in (DOMAIN a) \cap (DOMAIN b) |-> a[k] - b[k]]

SetCol(d, col, column) == (col :> column) @@ d

(***************************************************************************)
(*              SE300wind.py: main, after balance()                        *)
(***************************************************************************)
\* Lines 194-201: the Residual column and the start of the hydrogen loop.
SE300wind_residual(c, r) ==
    LET d1 == SetCol(r.df, "Residual", ColSub(r.df.Pout, r.df.Tout))
        d2 == SetCell(d1, "Hydrogen", 0, 0)
        d3 == SetCell(d2, "eStore", 0, 0)
    IN  [r EXCEPT !.df = d3, !.curtail = 0, !.curtailH2 = 0, !.shortage = 0,
                  !.H2out = 0, !.pc = AfterHour(r.df, 0, "h2hour", "done"), !.i = 1]

\* The hydrogen added in an hour of excess: 0.02 * min(Residual, elyscap).
SE300wind_h2excess(c, res) == 2 * Min(res, c.elyscap)

\* The hydrogen added (a negative number) in an hour of shortage.
SE300wind_h2shortage(c, res) == 5 * res

\* Lines 202-213: one iteration of the hydrogen loop.
\* The energy store with only the excess added.
SE300wind_estore_excess_only(prev, res) == prev + Max(res, 0)

\* Line 204: df.loc[i,'eStore'] = df.loc[i-1,'eStore'] + df.loc[i,'Residual']
SE300wind_estore(prev, res) == prev + res

SE300wind_h2hour(c, r) ==
    LET k == r.i
        res == r.df.Residual[k]
        d1 == SetCell(r.df, "eStore", k,
                      SE300wind_estore(r.df.eStore[k - 1], res))
    IN  IF res >= 0
        THEN [r EXCEPT
                !.df = SetCell(d1, "Hydrogen", k,
                               d1.Hydrogen[k - 1] + SE300wind_h2excess(c, res)),
                !.curtail = @ + res,
                !.curtailH2 = @ + Max(res - c.elyscap, 0),
                !.H2out = @ + 2 * res,
                !.pc = AfterHour(r.df, k, "h2hour", "done"), !.i = k + 1]
        ELSE [r EXCEPT
                !.df = SetCell(d1, "Hydrogen", k,
                               d1.Hydrogen[k - 1] + SE300wind_h2shortage(c, res)),
                !.shortage = @ - res,
                !.H2out = @ - 5 * res,
                !.pc = AfterHour(r.df, k, "h2hour", "done"), !.i = k + 1]

(***************************************************************************)
(*          SwedenPowerBalance.py: main, after balance()                   *)
(***************************************************************************)
SwedenPowerBalance_residual(c, r) ==
    LET d1 == SetCol(r.df, "Residual", ColSub(r.df.Pout, r.df.Tout))
        d2 == SetCell(d1, "Hydrogen", 0, 0)
        d3 == SetCell(d2, "eStore", 0, 0)
    IN  [r EXCEPT !.df = d3, !.curtail = 0, !.shortage = 0,
                  !.pc = AfterHour(r.df, 0, "h2hour", "done"), !.i = 1]

SwedenPowerBalance_h2excess(c, res) == 2 * res

SwedenPowerBalance_h2shortage(c, res) == 5 * res

SwedenPowerBalance_h2hour(c, r) ==
    LET k == r.i
        res == r.df.Residual[k]
        d1 == SetCell(r.df, "eStore", k, r.df.eStore[k - 1] + res)
    IN  IF res >= 0
        THEN [r EXCEPT
                !.df = SetCell(d1, "Hydrogen", k,
                               d1.Hydrogen[k - 1]
                                 + SwedenPowerBalance_h2excess(c, res)),
                !.curtail = @ + res,
                !.pc = AfterHour(r.df, k, "h2hour", "done"), !.i = k + 1]
        ELSE [r EXCEPT
                !.df = SetCell(d1, "Hydrogen", k,
                               d1.Hydrogen[k - 1]
                                 + SwedenPowerBalance_h2shortage(c, res)),
                !.shortage = @ - res,
                !.pc = AfterHour(r.df, k, "h2hour", "done"), !.i = k + 1]


(***************************************************************************)
(*                   SvK_EF_nuclear.py: balance()                          *)
(***************************************************************************)
SvK_EF_nuclear_balance0(c, r) ==
    LET d1 == SetCell(r.df, "eStore", 0, 0)
        d2 == SetCell(d1, "Pout", 0, d1.Consumption[0])
        d3 == SetCell(d2, "Water", 0, 0)
        d4 == SetCell(d3, "Import", 0, 0)
        d5 == SetCell(d4, "Export", 0, 0)
        d6 == SetCell(d5, "Residual", 0, 0)
        d7 == SetCell(d6, "Pnet", 0, d6.Consumption[0] - c.constexp)
    IN  [r EXCEPT !.df = d7, !.pc = AfterHour(r.df, 0, "hour", "residual"), !.i = 1]

\* The water balance with full hydro output in every hour of deficit.
SvK_EF_nuclear_water_full(c, wind, con, load) ==
    IF (wind + con) - load >= 0 THEN 2000 ELSE c.wlim

\* Water balance equations.
SvK_EF_nuclear_water(c, wind, con, load) ==
    IF (wind + con) - load >= 0
    THEN 2000
    ELSE IF (wind + con) - load <= -c.wlim
    THEN c.wlim
    ELSE Max(load - (wind + con), 2000)

\* The balance with import used before the flexible load is reduced.
SvK_EF_nuclear_flex_import_first(c, wind, con, load, water) ==
    IF (wind + con + water) - load <= 0
    THEN LET imp == Min(load - (wind + con + water), c.impl)
         IN  [imp |-> imp, eload |-> 0, exp |-> 0,
              flex |-> Min(load - (wind + con + water) - imp, c.flexmax)]
    ELSE LET eload == Min((wind + con + water) - load, c.elyscap)
         IN  [flex |-> 0, eload |-> eload, imp |-> 0,
              exp |-> Min((wind + con + water) - load - eload, c.expl)]

\* Flexible load, then import or export.
SvK_EF_nuclear_flex(c, wind, con, load, water) ==
    IF (wind + con + water) - load <= 0
    THEN LET flex == Min(load - (wind + con + water), c.flexmax)
         IN  [flex |-> flex, eload |-> 0, exp |-> 0,
              imp |-> Min(load - (wind + con + water) - flex, c.impl)]
    ELSE LET eload == Min((wind + con + water) - load, c.elyscap)
         IN  [flex |-> 0, eload |-> eload, imp |-> 0,
              exp |-> Min((wind + con + water) - load - eload, c.expl)]

\* The write-back of the demand with the sign of the two terms exchanged.
SvK_EF_nuclear_consumption_swapped(load, eload, flex) == load - eload + flex

\* Line 115: df.loc[i,'Consumption'] += eload - flex
SvK_EF_nuclear_consumption(load, eload, flex) == load + eload - flex

SvK_EF_nuclear_hour(c, r) ==
    IF r.i \notin DOMAIN r.df.Wind THEN KeyError(r) ELSE
    LET k == r.i
        wind == r.df.Wind[k]
        load == r.df.Consumption[k]
        con == r.df.Heat[k]
        water == SvK_EF_nuclear_water(c, wind, con, load)
        x == SvK_EF_nuclear_flex(c, wind, con, load, water)
        d1 == SetCell(r.df, "Water", k, water)
        d2 == SetCell(d1, "Import", k, x.imp)
        d3 == SetCell(d2, "Export", k, x.exp)
        d4 == SetCell(d3, "Pout", k, wind + water + con + x.imp - x.exp)
        d5 == SetCell(d4, "Pnet", k, wind + water + con + x.imp)
        d6 == SetCell(d5, "Consumption", k,
                      SvK_EF_nuclear_consumption(d5.Consumption[k],
                                                 x.eload, x.flex))
        d7 == SetCell(d6, "eStore", k,
                      d6.eStore[k - 1] + x.eload + (c.flexmax - x.flex) - 9700)
    IN  [r EXCEPT !.df = d7, !.imp = x.imp, !.exp = x.exp, !.water = water,
                  !.eload = x.eload, !.flex = x.flex,
                  !.log = (k :> LogEntry(load, 0, water, x.imp, 0, x.eload,
                                         x.flex, 0)) @@ @,
                  !.H2high = @ + x.eload, !.H2low = @ + (c.flexmax - x.flex),
                  !.pc = AfterHour(r.df, k, "hour", "residual"), !.i = k + 1]

(***************************************************************************)
(*                    SvK_EF_wind.py: balance()                            *)
(***************************************************************************)
SvK_EF_wind_balance0(c, r) ==
    LET d1 == SetCell(r.df, "eStore", 0, 0)
        d2 == SetCell(d1, "dStore", 0, 0)
        d3 == SetCell(d2, "dPower", 0, 0)
        d4 == SetCell(d3, "Pout", 0, d3.Consumption[0])
        d5 == SetCell(d4, "Import", 0, 0)
        d6 == SetCell(d5, "Export", 0, 0)
        d7 == SetCell(d6, "Residual", 0, 0)
        d8 == SetCell(d7, "Pnet", 0, d7.Consumption[0])
    IN  [r EXCEPT !.df = d8, !.pc = AfterHour(r.df, 0, "hour", "residual"), !.i = 1]

\* Water balance equations.
SvK_EF_wind_water(c, must_run, load) ==
    IF must_run - load >= 0
    THEN c.wlim_low
    ELSE IF must_run - load <= -c.wlim_high
    THEN c.wlim_high
    ELSE Max(load - must_run, c.wlim_low)

\* The power balance with the electrolyser load added before the deficit
\* store is charged.
SvK_EF_wind_flex_eload_first(c, power_diff) ==
    IF power_diff >= 0
    THEN LET eload == Min(power_diff, c.elyscap)
             pd1 == power_diff - eload
             def_store == Min(pd1, c.dStore_InCap)
             pd2 == pd1 - def_store
         IN  [def_store |-> def_store, eload |-> eload, flex |-> 0,
              imp |-> 0, exp |-> Min(pd2, c.expl)]
    ELSE LET flex == Min(-power_diff, c.flexmax)
             pd1 == power_diff + flex
             imp == Min(-pd1, c.impl)
             pd2 == pd1 + imp
         IN  [def_store |-> -Min(-pd2, c.dStore_OutCap), eload |-> 0,
              flex |-> flex, imp |-> imp, exp |-> 0]

\* Lines 133-146: the power balance after water balancing.  def_store is
\* the local as line 151 reads it, before the division of line 156.
SvK_EF_wind_flex(c, power_diff) ==
    IF power_diff >= 0
    THEN LET def_store == Min(power_diff, c.dStore_InCap)
             pd1 == power_diff - def_store
             eload == Min(pd1, c.elyscap)
             pd2 == pd1 - eload
         IN  [def_store |-> def_store, eload |-> eload, flex |-> 0,
              imp |-> 0, exp |-> Min(pd2, c.expl)]
    ELSE LET flex == Min(-power_diff, c.flexmax)
             pd1 == power_diff + flex
             imp == Min(-pd1, c.impl)
             pd2 == pd1 + imp
         IN  [def_store |-> -Min(-pd2, c.dStore_OutCap), eload |-> 0,
              flex |-> flex, imp |-> imp, exp |-> 0]

\* The division by rtp_eff applied to the charge as well.
SvK_EF_wind_dpower_both(c, def_store) == c.rtp_den * def_store

\* Lines 155-156: def_store /= rtp_eff when negative, in the unit of the
\* dStore column, 1/(1000*rtp_num): x is rtp_num*x, x/rtp_eff is rtp_den*x.
SvK_EF_wind_dpower(c, def_store) ==
    IF def_store < 0 THEN c.rtp_den * def_store ELSE c.rtp_num * def_store

\* The write-back of the demand with the reduction of the flexible load
\* forgotten.
SvK_EF_wind_consumption_noflex(load, eload, flex) == load + eload

\* Line 153: df.loc[i,'Consumption'] += eload - flex
SvK_EF_wind_consumption(load, eload, flex) == load + eload - flex

\* One iteration of the loop with the discharge refused when the deficit
\* store is empty.
SvK_EF_wind_hour_limited(c, r) ==
    IF r.i \notin DOMAIN r.df.Wind THEN KeyError(r) ELSE
    LET k == r.i
        must_run == r.df.Wind[k] + r.df.Heat[k]
        load == r.df.Consumption[k]
        water == SvK_EF_wind_water(c, must_run, load)
        x0 == SvK_EF_wind_flex(c, must_run + water - load)
        x == IF x0.def_store < 0 /\ r.df.dStore[k - 1] <= 0
             THEN [x0 EXCEPT !.def_store = 0]
             ELSE x0
        dp == SvK_EF_wind_dpower(c, x.def_store)
        d1 == SetCell(r.df, "Water", k, water)
        d2 == SetCell(d1, "Import", k, x.imp)
        d3 == SetCell(d2, "Export", k, x.exp)
        d4 == SetCell(d3, "Pout", k,
                      must_run + water + x.imp - x.exp - x.def_store)
        d5 == SetCell(d4, "Pnet", k, must_run + water + x.imp)
        d6 == SetCell(d5, "Consumption", k,
                      SvK_EF_wind_consumption(d5.Consumption[k],
                                              x.eload, x.flex))
        d7 == SetCell(d6, "eStore", k,
                      d6.eStore[k - 1]
                        + 219 * (x.eload + (c.flexmax - x.flex)) - 2125000)
        d8 == SetCell(d7, "dStore", k, d7.dStore[k - 1] + dp)
        d9 == SetCell(d8, "dPower", k, dp)
    IN  [r EXCEPT !.df = d9, !.imp = x.imp, !.exp = x.exp, !.water = water,
                  !.eload = x.eload, !.flex = x.flex,
                  !.def_store = x.def_store,
                  !.log = (k :> LogEntry(load, 0, water, x.imp, 0, x.eload,
                                         x.flex, x.def_store)) @@ @,
                  !.H2high = @ + x.eload, !.H2low = @ + (c.flexmax - x.flex),
                  !.pc = AfterHour(r.df, k, "hour", "residual"), !.i = k + 1]

\* One iteration of the hourly loop.
SvK_EF_wind_hour(c, r) ==
    IF r.i \notin DOMAIN r.df.Wind THEN KeyError(r) ELSE
    LET k == r.i
        must_run == r.df.Wind[k] + r.df.Heat[k]
        load == r.df.Consumption[k]
        water == SvK_EF_wind_water(c, must_run, load)
        x == SvK_EF_wind_flex(c, must_run + water - load)
        dp == SvK_EF_wind_dpower(c, x.def_store)
        d1 == SetCell(r.df, "Water", k, water)
        d2 == SetCell(d1, "Import", k, x.imp)
        d3 == SetCell(d2, "Export", k, x.exp)
        d4 == SetCell(d3, "Pout", k,
                      must_run + water + x.imp - x.exp - x.def_store)
        d5 == SetCell(d4, "Pnet", k, must_run + water + x.imp)
        d6 == SetCell(d5, "Consumption", k,
                      SvK_EF_wind_consumption(d5.Consumption[k],
                                              x.eload, x.flex))
        d7 == SetCell(d6, "eStore", k,
                      d6.eStore[k - 1]
                        + 219 * (x.eload + (c.flexmax - x.flex)) - 2125000)
        d8 == SetCell(d7, "dStore", k, d7.dStore[k - 1] + dp)
        d9 == SetCell(d8, "dPower", k, dp)
    IN  [r EXCEPT !.df = d9, !.imp = x.imp, !.exp = x.exp, !.water = water,
                  !.eload = x.eload, !.flex = x.flex,
                  !.def_store = x.def_store,
                  !.log = (k :> LogEntry(load, 0, water, x.imp, 0, x.eload,
                                         x.flex, x.def_store)) @@ @,
                  !.H2high = @ + x.eload, !.H2low = @ + (c.flexmax - x.flex),
                  !.pc = AfterHour(r.df, k, "hour", "residual"), !.i = k + 1]

(***************************************************************************)
(*       SvK_EF_nuclear.py and SvK_EF_wind.py: main, after balance()       *)
(***************************************************************************)
RECURSIVE ColSum(_, _)
\* The sum of the cells of `col` on the rows S.
ColSum(col, S) ==
    IF S = {} THEN 0
    ELSE LET k == CHOOSE x \in S : TRUE
         IN  col[k] + ColSum(col, S \ {k})

\* df.loc[df['Residual'] > 0, "Residual"].sum()
curtail_sum(res) == ColSum(res, {k \in DOMAIN res : res[k] > 0})

\* The shortage without the negation of the sum.
shortage_sum_signed(res) == ColSum(res, {k \in DOMAIN res : res[k] < 0})

\* - df.loc[df['Residual'] < 0, "Residual"].sum()
shortage_sum(res) == -ColSum(res, {k \in DOMAIN res : res[k] < 0})

SvK_EF_nuclear_residual(c, r) ==
    LET res == ColSub(r.df.Pout, r.df.Consumption)
    IN  [r EXCEPT !.df = SetCol(r.df, "Residual", res),
                  !.curtail = curtail_sum(res),
                  !.shortage = shortage_sum(res), !.pc = "done"]

\* The residual taken from Pnet instead of Pout.
SvK_EF_wind_residual_pnet(c, r) ==
    LET res == ColSub(r.df.Pnet, r.df.Consumption)
    IN  [r EXCEPT !.df = SetCol(r.df, "Residual", res),
                  !.curtail = curtail_sum(res),
                  !.shortage = shortage_sum(res), !.pc = "done"]

SvK_EF_wind_residual(c, r) ==
    LET res == ColSub(r.df.Pout, r.df.Consumption)
    IN  [r EXCEPT !.df = SetCol(r.df, "Residual", res),
                  !.curtail = curtail_sum(res),
                  !.shortage = shortage_sum(res), !.pc = "done"]


(***************************************************************************)
(* The script that runs decides which balance() and which main it is.      *)
(***************************************************************************)
balance0(v, c, r) ==
    CASE v = "SE300wind" -> SE300wind_balance0(c, r)
      [] v = "SwedenPowerBalance" -> SwedenPowerBalance_balance0(c, r)
      [] v = "SvK_EF_nuclear" -> SvK_EF_nuclear_balance0(c, r)
      [] v = "SvK_EF_wind" -> SvK_EF_wind_balance0(c, r)

residual(v, c, r) ==
    CASE v = "SE300wind" -> SE300wind_residual(c, r)
      [] v = "SwedenPowerBalance" -> SwedenPowerBalance_residual(c, r)
      [] v = "SvK_EF_nuclear" -> SvK_EF_nuclear_residual(c, r)
      [] v = "SvK_EF_wind" -> SvK_EF_wind_residual(c, r)

h2hour(v, c, r) ==
    IF v = "SE300wind" THEN SE300wind_h2hour(c, r)
    ELSE SwedenPowerBalance_h2hour(c, r)

(***************************************************************************)
(* The state before balance() runs.  The two runs read the same frame;     *)
(* their generators start from different entropy.                          *)
(***************************************************************************)
InitWith(v, c) ==
    \E rows \in [Rows -> HourInputs(v, c)] :
        /\ variant = v
        /\ cfg = c
        /\ run = StartRun(InputFrame(v, rows), -1)
        /\ twin = StartRun(InputFrame(v, rows), -2)

\* The scripts as they are.
Init == \E v \in Variants : InitWith(v, SourceCfg(v))

\* The scripts on a file with missing wind readings: normalize() has
\* dropped the rows `missing` of the table (row 0 has a reading).
InitDrop ==
    \E v \in Variants : \E missing \in SUBSET (Rows \ {0}) :
        \E rows \in [Rows -> HourInputs(v, SourceCfg(v))] :
            /\ variant = v
            /\ cfg = SourceCfg(v)
            /\ run = StartRun(dropna(InputFrame(v, rows), missing), -1)
            /\ twin = StartRun(dropna(InputFrame(v, rows), missing), -2)

\* The scripts with their constants set to another configuration.
InitCfg == \E v \in Variants : \E c \in Configs(v) : InitWith(v, c)

(***************************************************************************)
(* Actions of one run.                                                     *)
(***************************************************************************)
Balance0 ==
    /\ run.pc = "balance"
    /\ run' = balance0(variant, cfg, run)
    /\ UNCHANGED <<variant, cfg, twin>>

SE300wind_Hour ==
    /\ variant = "SE300wind"
    /\ run.pc = "hour"
    /\ \E j \in Draws : run' = SE300wind_hour(cfg, run, j)
    /\ UNCHANGED <<variant, cfg, twin>>

SwedenPowerBalance_Hour ==
    /\ variant = "SwedenPowerBalance"
    /\ run.pc = "hour"
    /\ \E j \in Draws : run' = SwedenPowerBalance_hour(cfg, run, j)
    /\ UNCHANGED <<variant, cfg, twin>>

SvK_EF_nuclear_Hour ==
    /\ variant = "SvK_EF_nuclear"
    /\ run.pc = "hour"
    /\ run' = SvK_EF_nuclear_hour(cfg, run)
    /\ UNCHANGED <<variant, cfg, twin>>

SvK_EF_wind_Hour ==
    /\ variant = "SvK_EF_wind"
    /\ run.pc = "hour"
    /\ run' = SvK_EF_wind_hour(cfg, run)
    /\ UNCHANGED <<variant, cfg, twin>>

Residual ==
    /\ run.pc = "residual"
    /\ run' = residual(variant, cfg, run)
    /\ UNCHANGED <<variant, cfg, twin>>

H2Hour ==
    /\ variant \in Reservoir
    /\ run.pc = "h2hour"
    /\ run' = h2hour(variant, cfg, run)
    /\ UNCHANGED <<variant, cfg, twin>>

Next ==
    \/ Balance0
    \/ SE300wind_Hour
    \/ SwedenPowerBalance_Hour
    \/ SvK_EF_nuclear_Hour
    \/ SvK_EF_wind_Hour
    \/ Residual
    \/ H2Hour

Spec == Init /\ [][Next]_vars

SpecCfg == InitCfg /\ [][Next]_vars

SpecDrop == InitDrop /\ [][Next]_vars


(***************************************************************************)
(* Two runs of the same script on the same input, hour by hour.  The       *)
(* generator is deterministic: from equal states the two runs draw the     *)
(* same number; from different states they may draw anything.              *)
(***************************************************************************)
hour(v, c, r, j) ==
    CASE v = "SE300wind" -> SE300wind_hour(c, r, j)
      [] v = "SwedenPowerBalance" -> SwedenPowerBalance_hour(c, r, j)
      [] v = "SvK_EF_nuclear" -> SvK_EF_nuclear_hour(c, r)
      [] v = "SvK_EF_wind" -> SvK_EF_wind_hour(c, r)

TwinBalance0 ==
    /\ run.pc = "balance"
    /\ run' = balance0(variant, cfg, run)
    /\ twin' = balance0(variant, cfg, twin)
    /\ UNCHANGED <<variant, cfg>>

TwinHourReservoir ==
    /\ variant \in Reservoir
    /\ run.pc = "hour"
    /\ \E ja, jb \in Draws :
          /\ run.rng = twin.rng => ja = jb
          /\ run' = hour(variant, cfg, run, ja)
          /\ twin' = hour(variant, cfg, twin, jb)
    /\ UNCHANGED <<variant, cfg>>

TwinHourHydrogen ==
    /\ variant \in HydrogenVariants
    /\ run.pc = "hour"
    /\ run' = hour(variant, cfg, run, 0)
    /\ twin' = hour(variant, cfg, twin, 0)
    /\ UNCHANGED <<variant, cfg>>

TwinResidual ==
    /\ run.pc = "residual"
    /\ run' = residual(variant, cfg, run)
    /\ twin' = residual(variant, cfg, twin)
    /\ UNCHANGED <<variant, cfg>>

TwinH2Hour ==
    /\ variant \in Reservoir
    /\ run.pc = "h2hour"
    /\ run' = h2hour(variant, cfg, run)
    /\ twin' = h2hour(variant, cfg, twin)
    /\ UNCHANGED <<variant, cfg>>

NextTwin ==
    \/ TwinBalance0
    \/ TwinHourReservoir
    \/ TwinHourHydrogen
    \/ TwinResidual
    \/ TwinH2Hour

SpecTwin == Init /\ [][NextTwin]_vars


(***************************************************************************)
(* Two runs of a reservoir script on the same input whose generators give  *)
(* different streams: the first run draws any number each hour, the second *)
(* is the reference stream that draws the least number every hour.  The    *)
(* reservoir starts at the level of the source or at a low level, the      *)
(* level at the start of the modelled window of hours; the Inflow column   *)
(* is one inflow() fills.                                                  *)
(***************************************************************************)
LowStoreCfg(v) == [SourceCfg(v) EXCEPT !.name = "low_store", !.Store0 = 10000]

StreamCfgs(v) == {SourceCfg(v), LowStoreCfg(v)}

\* random.random() = 0.0, the least number the generator returns.
LeastDraw == 0

InitStreams ==
    \E v \in Reservoir : \E c \in StreamCfgs(v) : InitWith(v, c)

StreamsHour ==
    /\ variant \in Reservoir
    /\ run.pc = "hour"
    /\ \E ja \in Draws :
          /\ run' = hour(variant, cfg, run, ja)
          /\ twin' = hour(variant, cfg, twin, LeastDraw)
    /\ UNCHANGED <<variant, cfg>>

NextStreams ==
    \/ TwinBalance0
    \/ StreamsHour
    \/ TwinResidual
    \/ TwinH2Hour

SpecStreams == InitStreams /\ [][NextStreams]_vars

(***************************************************************************)
(* Two runs of a hydrogen script on two tables that hold the same inputs   *)
(* from row h on and differ before: the rows before h of the second table  *)
(* all hold the hour alt.                                                  *)
(***************************************************************************)
InitPair ==
    \E v \in HydrogenVariants :
        \E rows \in [Rows -> HourInputs(v, SourceCfg(v))] :
            \E alt \in HourInputs(v, SourceCfg(v)) : \E h \in 1 .. (NumRows - 1) :
                /\ variant = v
                /\ cfg = SourceCfg(v)
                /\ run = StartRun(InputFrame(v, rows), -1)
                /\ twin = StartRun(InputFrame(v, [k \in Rows |->
                                      IF k < h THEN alt ELSE rows[k]]), -2)

NextPair ==
    \/ TwinBalance0
    \/ TwinHourHydrogen
    \/ TwinResidual

SpecPair == InitPair /\ [][NextPair]_vars

(***************************************************************************)
(* inflow() of the reservoir variants: the hour-of-year column.  A Date is *)
(* the whole number of hours since 1970-01-01 00:00 that                   *)
(* x.timestamp()/3600 gives for the hourly timestamps of the file; the     *)
(* table holds NumRows consecutive hours of the span 2020-01-01 00:00 ..   *)
(* 2021-12-31 23:00.  The Inflow column of line 161 is not computed here:  *)
(* the dispatch model takes it from HourInputs.                            *)
(***************************************************************************)
\* 2020-01-01 00:00 in hours since 1970-01-01, the literal of line 159.
Epoch2020 == 438288

\* The literals of line 160.
Shift == 5880

Period == 8784

\* The hours of 2020 and 2021: 366 and 365 days.
SpanHours == (366 + 365) * 24

\* Line 159: x.timestamp()/3600 - 438288
inflow_hours(date) == date - Epoch2020

\* Line 160: (x + 5880) % 8784
inflow_HoY(x) == (x + Shift) % Period

DateFrame(first) == "Date" :> [k \in Rows |-> first + k]

InitHoY ==
    \E v \in Reservoir :
        \E first \in Epoch2020 .. (Epoch2020 + SpanHours - NumRows) :
            /\ variant = v
            /\ cfg = SourceCfg(v)
            /\ run = [StartRun(DateFrame(first), -1) EXCEPT !.pc = "inflow"]
            /\ twin = [StartRun(DateFrame(first), -2) EXCEPT !.pc = "inflow"]

\* inflow(), lines 159-160: the two assignments of the HoY column.
Inflow ==
    /\ run.pc = "inflow"
    /\ LET d1 == SetCol(run.df, "HoY",
                        [k \in DOMAIN run.df.Date |->
                            inflow_hours(run.df.Date[k])])
           d2 == SetCol(d1, "HoY",
                        [k \in DOMAIN d1.HoY |-> inflow_HoY(d1.HoY[k])])
       IN  run' = [run EXCEPT !.df = d2, !.pc = "scalewind"]
    /\ UNCHANGED <<variant, cfg, twin>>

NextHoY == Inflow

SpecHoY == InitHoY /\ [][NextHoY]_vars

(***************************************************************************)
(*                         Properties                                      *)
(***************************************************************************)
HasCol(col) == col \in DOMAIN run.df

\* The rows the hourly loop of balance() has dispatched so far.
Hours == IF HasCol("Import") THEN (DOMAIN run.df.Import) \ {0} ELSE {}

Waout(k) == run.df[WaterCol(variant)][k]

Demand(k) == run.df[LoadCol(variant)][k]

MustRun(k) == run.df.Wind[k] + run.df[BaseCol(variant)][k]

\* main has assigned the Residual column.
ResidualDone == run.pc \in {"h2hour", "done"}

\* C1: in the reservoir variants the hydro output written for every hour
\* i >= 1 lies in [2, wlim] and does not exceed the reservoir level of the
\* hour before.
C1_HydroWithinLimits ==
    variant \in Reservoir =>
        \A k \in Hours :
            /\ 2000 <= Waout(k)
            /\ Waout(k) <= cfg.wlim
            /\ Waout(k) <= run.df.Store[k - 1]

\* C2: in the reservoir variants Store_0 = 20000 and, for every hour i >= 1,
\* Store_i = Store_{i-1} - Waout_i + Inflow_i with the Waout written to the
\* table.
C2_StoreBalance ==
    (variant \in Reservoir /\ HasCol("Store")) =>
        /\ run.df.Store[0] = 20000000
        /\ \A k \in Hours :
              run.df.Store[k] = run.df.Store[k - 1] - Waout(k) + run.df.Inflow[k]

\* A finished reservoir run with an hour of inflow in which the exchange
\* moved water to import.
C2_Witness ==
    /\ variant \in Reservoir
    /\ run.pc = "done"
    /\ \E k \in Hours :
          /\ run.df.Inflow[k] > 0
          /\ run.df.Import[k] > 0
          /\ Waout(k) < MustRun(k) + Waout(k) + run.df.Import[k]

\* C3: in all four variants, every row of the table has 0 <= Import <= impl
\* and 0 <= Export <= expl.
C3_InterconnectorLimits ==
    \A k \in Hours \cup (IF HasCol("Import") THEN {0} ELSE {}) :
        /\ 0 <= run.df.Import[k]
        /\ run.df.Import[k] <= cfg.impl
        /\ 0 <= run.df.Export[k]
        /\ run.df.Export[k] <= cfg.expl

\* C4: once main has assigned it, Residual = Pout - demand on every row,
\* row 0 included, with the demand column as it stands after the dispatch
\* loop; the Residual of row 0 is the 0 balance() wrote there.
C4_ResidualIsPoutMinusDemand ==
    /\ ResidualDone =>
          /\ DOMAIN run.df.Residual = Rows
          /\ \A k \in Rows : run.df.Residual[k] = run.df.Pout[k] - Demand(k)
    /\ HasCol("Residual") => run.df.Residual[0] = 0

\* A finished run of the deficit-store variant whose last hour reduced the
\* flexible load (so Consumption was rewritten) and still ended short.
C4_Witness ==
    /\ variant = "SvK_EF_wind"
    /\ run.pc = "done"
    /\ run.flex > 0
    /\ run.df.Residual[NumRows - 1] < 0

\* C5: in both reservoir variants the hydrogen store changes by
\* +0.02 x Residual in an hour of positive residual and by -0.05 x |Residual|
\* in an hour of negative residual, nothing else limiting the increment.
C5_HydrogenRates ==
    (variant \in Reservoir /\ HasCol("Hydrogen")) =>
        \A k \in (DOMAIN run.df.Hydrogen) \ {0} :
            LET dH == run.df.Hydrogen[k] - run.df.Hydrogen[k - 1]
                res == run.df.Residual[k]
            IN  /\ res > 0 => dH = 2 * res
                /\ res < 0 => dH = 5 * res

\* The hour the loop of balance() has just dispatched.
JustDispatched == run.pc \in {"hour", "residual"} /\ run.i >= 2

\* C6: in SvK_EF_wind.py, in an hour of surplus dStore grows by the charge,
\* 0 <= charge <= dStore_InCap, with no efficiency factor; in an hour of
\* deficit it falls by discharge / rtp_eff, 0 <= discharge <= dStore_OutCap,
\* while Pout is credited with the undivided discharge.  (dStore is in units
\* of 1/(1000*rtp_num): a change of x GWh is rtp_num*x, of x/rtp_eff GWh is
\* rtp_den*x.)
C6_DeficitStore ==
    (variant = "SvK_EF_wind" /\ JustDispatched) =>
        LET k == run.i - 1
            load == Demand(k) - run.eload + run.flex
            power_diff == MustRun(k) + Waout(k) - load
            delta == run.df.dStore[k] - run.df.dStore[k - 1]
            charge == run.def_store
            discharge == -run.def_store
        IN  /\ power_diff >= 0 =>
                /\ 0 <= charge /\ charge <= cfg.dStore_InCap
                /\ delta = cfg.rtp_num * charge
            /\ power_diff < 0 =>
                /\ 0 <= discharge /\ discharge <= cfg.dStore_OutCap
                /\ delta = -(cfg.rtp_den * discharge)
            /\ run.df.Pout[k] = MustRun(k) + Waout(k) + run.df.Import[k]
                                  - run.df.Export[k] - run.def_store

\* With the pumped-hydro efficiency: an hour that discharges less than the
\* capacity, after an hour that charged.
C6_Witness ==
    /\ variant = "SvK_EF_wind"
    /\ cfg.name = "pumped_hydro"
    /\ JustDispatched
    /\ run.def_store < 0
    /\ -run.def_store < cfg.dStore_OutCap
    /\ \E k \in Hours : run.df.dPower[k] > 0

\* C7: two runs with the same constants, the same input and the same seeded
\* random stream have identical tables, moving averages and accumulators at
\* every step.
C7_SameRunsSameTables ==
    run.pc # "balance" =>
        /\ run.df = twin.df
        /\ run.ema_old = twin.ema_old
        /\ run.pc = twin.pc
        /\ run.curtail = twin.curtail /\ run.shortage = twin.shortage
        /\ run.H2high = twin.H2high /\ run.H2low = twin.H2low

\* Two finished reservoir runs that drew a number every hour and exchanged
\* water for import.
C7_Witness ==
    /\ variant \in Reservoir
    /\ run.pc = "done" /\ twin.pc = "done"
    /\ run.rng.n = NumRows - 1 /\ twin.rng.n = NumRows - 1
    /\ \E k \in Hours : run.rand_imp > 0 /\ run.df.Import[k] > 0

\* The deficit-store flow of hour k in thousandths (SvK_EF_wind.py), from
\* the dPower column; 0 in the other variants.
StoreFlow(k) ==
    IF variant # "SvK_EF_wind" THEN 0
    ELSE IF run.df.dPower[k] >= 0
    THEN run.df.dPower[k] \div cfg.rtp_num
    ELSE -((-run.df.dPower[k]) \div cfg.rtp_den)

\* C8: with impl = expl = 0 the Import and Export columns are 0 on every
\* row, in every variant, and the imbalance is in Residual.
C8_NoInterconnector ==
    (cfg.impl = 0 /\ cfg.expl = 0) =>
        /\ \A k \in Hours : run.df.Import[k] = 0 /\ run.df.Export[k] = 0
        /\ ResidualDone =>
              \A k \in Hours :
                  run.df.Residual[k] =
                      MustRun(k) + Waout(k) - StoreFlow(k) - Demand(k)

\* The three hours of scenario 3 in rows 1..3 of a reservoir variant with
\* hydro maximum 6, no import, no export and 100 in the reservoir.
Scenario3 ==
    /\ variant \in Reservoir
    /\ cfg.name = "scenario3"
    /\ \A k \in 1 .. 3 : run.df.Wind[k] = 5000 /\ run.df.Nuclear[k] = 5000
    /\ run.df.Tout[1] = 8000 /\ run.df.Tout[2] = 12000 /\ run.df.Tout[3] = 6000
    /\ ResidualDone

\* C9 as stated: hydro dispatch [2,2,2] and residual [2,0,4].
C9_Original ==
    Scenario3 =>
        /\ \A k \in 1 .. 3 : Waout(k) = 2000
        /\ run.df.Residual[1] = 2000
        /\ run.df.Residual[2] = 0
        /\ run.df.Residual[3] = 4000

\* C9, amended: hydro dispatch [2,2,2] and residual [4,0,6] (the residual
\* counts the hydro output).
C9_Scenario3 ==
    Scenario3 =>
        /\ \A k \in 1 .. 3 : Waout(k) = 2000
        /\ run.df.Residual[1] = 4000
        /\ run.df.Residual[2] = 0
        /\ run.df.Residual[3] = 6000

C9_Witness == Scenario3 /\ variant = "SE300wind" /\ run.pc = "done"

\* C10: in the reservoir variants Store_i >= 0 for every hour, for any
\* initial level >= 0 and any non-negative series.
C10_ReservoirNonNegative ==
    (variant \in Reservoir /\ HasCol("Store")) =>
        \A k \in DOMAIN run.df.Store : run.df.Store[k] >= 0


\* C11: a non-zero residual occurs only with the interconnector of that side
\* at its limit: in every hour i >= 1, Residual_i < 0 implies Import_i = impl
\* (and flex_i = flexmax in the hydrogen variants, discharge_i =
\* dStore_OutCap in SvK_EF_wind.py); Residual_i > 0 implies Export_i = expl
\* (and eload_i = elyscap, charge_i = dStore_InCap).
C11_ResidualOnlyAtLimits ==
    ResidualDone =>
        \A k \in Hours :
            LET res == run.df.Residual[k]
                L == run.log[k]
            IN  /\ res < 0 =>
                    /\ run.df.Import[k] = cfg.impl
                    /\ variant \in HydrogenVariants => L.flex = cfg.flexmax
                    /\ variant = "SvK_EF_wind" =>
                           -L.def_store = cfg.dStore_OutCap
                /\ res > 0 =>
                    /\ run.df.Export[k] = cfg.expl
                    /\ variant \in HydrogenVariants => L.eload = cfg.elyscap
                    /\ variant = "SvK_EF_wind" =>
                           L.def_store = cfg.dStore_InCap


\* The rows that remain after normalize(), and the remaining row before k.
Remaining == DOMAIN run.df.Wind

Preceding(k) == CHOOSE p \in Remaining : p < k /\ \A q \in Remaining : q < k => q <= p

\* C12: for every table that remains after the rows with missing wind
\* readings are dropped, balance() ends without raising an error, having
\* written the dispatch columns of every remaining row, each iteration
\* reading the carried state from the remaining row just before.
C12_BalanceCompletes ==
    /\ run.pc # "KeyError"
    /\ run.pc \in {"residual", "h2hour", "done"} =>
          /\ \A k \in Remaining :
                /\ k \in DOMAIN run.df.Import
                /\ k \in DOMAIN run.df.Export
                /\ k \in DOMAIN run.df.Pout
                /\ k = 0 \/ k \in DOMAIN run.df[WaterCol(variant)]
          /\ variant \in Reservoir =>
                \A k \in DOMAIN run.log :
                    run.log[k].ostore = run.df.Store[Preceding(k)]


\* A step of balance(): the rows before the loop, or one iteration.
BalanceStep == run.pc \in {"balance", "hour"} /\ run' # run

\* The exogenous columns of the variant, the demand column apart.
Exogenous ==
    {"Wind", BaseCol(variant)} \cup
    (IF variant \in Reservoir THEN {"Inflow"} ELSE {})

\* The step leaves every cell outside row i as it was.
OnlyRow(i) ==
    \A col \in DOMAIN run.df :
        \A k \in (DOMAIN run.df[col]) \ {i} :
            /\ col \in DOMAIN run'.df
            /\ k \in DOMAIN run'.df[col]
            /\ run'.df[col][k] = run.df[col][k]

\* The step writes the derived cells of row i for the first time.
WriteOnce(i) ==
    \A col \in (DOMAIN run.df) \ (Exogenous \cup {LoadCol(variant)}) :
        i \notin DOMAIN run.df[col]

\* C13 as stated: balance() never changes the Wind, baseload, demand or
\* Inflow value of any row, and iteration i writes derived values to row i
\* only, never rewriting an earlier row.
C13_Original ==
    [][BalanceStep =>
          /\ \A col \in Exogenous \cup {LoadCol(variant)} :
                run'.df[col] = run.df[col]
          /\ OnlyRow(run.i)
          /\ WriteOnce(run.i)]_vars

\* C13, amended: balance() never changes the Wind, baseload or Inflow value
\* of any row, nor the Tout of the reservoir variants; in the hydrogen
\* variants iteration i replaces Consumption_i by Consumption_i + eload_i -
\* flex_i and leaves the Consumption of the other rows alone; iteration i
\* writes derived values to row i only, each for the first time.
C13_WriteOnce ==
    [][BalanceStep =>
          /\ \A col \in Exogenous : run'.df[col] = run.df[col]
          /\ variant \in Reservoir => run'.df.Tout = run.df.Tout
          /\ (variant \in HydrogenVariants /\ run.pc = "hour"
                /\ run'.pc # "KeyError") =>
                run'.df.Consumption[run.i] =
                    run.df.Consumption[run.i] + run'.eload - run'.flex
          /\ OnlyRow(run.i)
          /\ WriteOnce(run.i)]_vars

\* A finished run of a hydrogen variant in which an hour's Consumption was
\* raised by the electrolyser load and another's lowered by the flexible
\* load.
C13_Witness ==
    /\ variant \in HydrogenVariants
    /\ run.pc = "done"
    /\ \E k \in Hours : run.df.Consumption[k] > run.log[k].load
    /\ \E k \in Hours : run.df.Consumption[k] < run.log[k].load


\* The deficit of hour k before hydro: demand - (wind + baseload), with the
\* demand as the iteration read it.
Deficit(k) == run.log[k].load - MustRun(k)

\* C14: hydro exactly closes the gap when it can.  In every hour i >= 1
\* with hydro_min <= deficit <= hydro_max (and deficit <= Store_{i-1} in the
\* reservoir variants) the rule selects hydro = deficit, Residual_i = 0 and
\* Export_i = 0, and in the hydrogen variants Water_i is the deficit and
\* Import, flex, eload and the deficit-store flow are 0.  With no deficit
\* the rule selects the hydro minimum; with a deficit of at least hydro_max
\* it selects hydro_max (capped by Store_{i-1} in the reservoir variants).
C14_HydroClosesGap ==
    ResidualDone =>
        \A k \in Hours :
            LET L == run.log[k]
                d == Deficit(k)
                hmin == WaterMin(variant, cfg)
                hmax == WaterMax(variant, cfg)
            IN  /\ (/\ hmin <= d /\ d <= hmax
                    /\ variant \in Reservoir => d <= L.ostore) =>
                       /\ L.water0 = d
                       /\ run.df.Residual[k] = 0
                       /\ run.df.Export[k] = 0
                       /\ variant \in HydrogenVariants =>
                             /\ run.df.Water[k] = d
                             /\ run.df.Import[k] = 0
                             /\ L.flex = 0 /\ L.eload = 0 /\ L.def_store = 0
                /\ d <= 0 => L.water0 = hmin
                /\ d >= hmax =>
                       L.water0 = IF variant \in Reservoir
                                  THEN Min(hmax, L.ostore) ELSE hmax

\* A finished run with an hour whose deficit hydro closed, an hour without
\* deficit and an hour with a deficit beyond the hydro maximum.
C14_Witness ==
    /\ run.pc = "done"
    /\ \E k \in Hours :
          /\ WaterMin(variant, cfg) < Deficit(k)
          /\ Deficit(k) < WaterMax(variant, cfg)
          /\ run.log[k].water0 = Deficit(k)
          /\ run.df.Residual[k] = 0
    /\ \E k \in Hours : Deficit(k) <= 0
    /\ \E k \in Hours : Deficit(k) >= WaterMax(variant, cfg)


\* The power balance of hour k after hydro, must_run + water - load, with
\* the demand as the iteration read it (hydrogen variants).
PowerDiff(k) == MustRun(k) + run.df.Water[k] - run.log[k].load

\* C15: in the hydrogen variants, in every hour i >= 1 with a power deficit
\* after hydro, the flexible load is reduced first, then import is used,
\* then the deficit store is discharged: Import_i > 0 implies flex_i =
\* flexmax; in SvK_EF_wind.py discharge_i > 0 implies flex_i = flexmax and
\* Import_i = impl; flex_i + Import_i + discharge_i never exceeds the
\* deficit.
C15_DeficitPriority ==
    variant \in HydrogenVariants =>
        \A k \in DOMAIN run.log :
            LET L == run.log[k]
                discharge == -L.def_store
            IN  PowerDiff(k) < 0 =>
                    /\ run.df.Import[k] > 0 => L.flex = cfg.flexmax
                    /\ (variant = "SvK_EF_wind" /\ discharge > 0) =>
                           /\ L.flex = cfg.flexmax
                           /\ run.df.Import[k] = cfg.impl
                    /\ L.flex >= 0 /\ run.df.Import[k] >= 0 /\ discharge >= 0
                    /\ L.flex + run.df.Import[k] + discharge <= -PowerDiff(k)

\* A run of the deficit-store variant with an hour that the flexible load
\* alone covered and an hour that needed all three, the store below its
\* output capacity.
C15_Witness ==
    /\ variant = "SvK_EF_wind"
    /\ \E k \in DOMAIN run.log :
          /\ PowerDiff(k) < 0
          /\ run.log[k].flex = -PowerDiff(k)
          /\ run.log[k].flex < cfg.flexmax
    /\ \E k \in DOMAIN run.log :
          /\ PowerDiff(k) < 0
          /\ run.df.Import[k] = cfg.impl
          /\ -run.log[k].def_store > 0
          /\ -run.log[k].def_store < cfg.dStore_OutCap


\* C16: in SvK_EF_wind.py, in every hour i >= 1 with a power surplus after
\* hydro, the deficit store is charged first, then electrolyser load is
\* added, then the remainder is exported: eload_i > 0 implies charge_i =
\* dStore_InCap; Export_i > 0 implies charge_i = dStore_InCap and eload_i =
\* elyscap; charge_i + eload_i + Export_i never exceeds the surplus.  In
\* SvK_EF_nuclear.py, without the store, Export_i > 0 implies eload_i =
\* elyscap.
C16_SurplusPriority ==
    variant \in HydrogenVariants =>
        \A k \in DOMAIN run.log :
            LET L == run.log[k]
                charge == L.def_store
            IN  PowerDiff(k) > 0 =>
                    /\ run.df.Export[k] > 0 => L.eload = cfg.elyscap
                    /\ variant = "SvK_EF_wind" =>
                          /\ L.eload > 0 => charge = cfg.dStore_InCap
                          /\ run.df.Export[k] > 0 =>
                                 charge = cfg.dStore_InCap
                    /\ charge >= 0 /\ L.eload >= 0 /\ run.df.Export[k] >= 0
                    /\ charge + L.eload + run.df.Export[k] <= PowerDiff(k)

\* A run of the deficit-store variant with an hour whose surplus the store
\* and the electrolysers took, and an hour that also exported.
C16_Witness ==
    /\ variant = "SvK_EF_wind"
    /\ \E k \in DOMAIN run.log :
          /\ PowerDiff(k) > 0
          /\ run.log[k].def_store = cfg.dStore_InCap
          /\ run.log[k].eload > 0
          /\ run.log[k].eload < cfg.elyscap
          /\ run.df.Export[k] = 0
    /\ \E k \in DOMAIN run.log :
          /\ PowerDiff(k) > 0
          /\ run.log[k].eload = cfg.elyscap
          /\ run.df.Export[k] > 0


\* The frame as main handed it to balance(): the second run has not started
\* and still holds it.
InputDf == twin.df

\* C17: in the hydrogen variants, for every hour i >= 1, 0 <= flex_i <=
\* flexmax and 0 <= eload_i <= elyscap, flex_i and eload_i are never both
\* non-zero, and the demand written back for hour i is the original
\* Consumption_i + eload_i - flex_i.
C17_FlexibleLoadBounds ==
    variant \in HydrogenVariants =>
        \A k \in DOMAIN run.log :
            LET L == run.log[k]
            IN  /\ 0 <= L.flex /\ L.flex <= cfg.flexmax
                /\ 0 <= L.eload /\ L.eload <= cfg.elyscap
                /\ ~(L.flex # 0 /\ L.eload # 0)
                /\ run.df.Consumption[k] =
                       InputDf.Consumption[k] + L.eload - L.flex

\* A run of a hydrogen variant with an hour at the full flexible reduction,
\* an hour with a part of the electrolyser capacity added and an hour with
\* neither.
C17_Witness ==
    /\ variant \in HydrogenVariants
    /\ \E k \in DOMAIN run.log : run.log[k].flex = cfg.flexmax
    /\ \E k \in DOMAIN run.log :
          run.log[k].eload > 0 /\ run.log[k].eload < cfg.elyscap
    /\ \E k \in DOMAIN run.log : run.log[k].eload = 0 /\ run.log[k].flex = 0


\* Pout and Pnet of row k are the sum of the dispatched sources.
SumOfSources(k) ==
    /\ run.df.Pout[k] = MustRun(k) + Waout(k) + run.df.Import[k]
                          - run.df.Export[k]
    /\ run.df.Pnet[k] = run.df.Pout[k] + run.df.Export[k]

\* C18 as stated: in the reservoir variants, on every row of the table, row
\* 0 included, Pout = Wind + baseload + Waout + Import - Export and Pnet =
\* Pout + Export.
C18_Original ==
    (variant \in Reservoir /\ HasCol("Pnet")) =>
        \A k \in Hours \cup {0} : SumOfSources(k)

\* C18, amended: in the reservoir variants, on every row i >= 1, Pout = Wind
\* + baseload + Waout + Import - Export and Pnet = Pout + Export; row 0 is
\* the initial row, with Pout_0 = Tout_0, Pnet_0 = Tout_0 - constexp and
\* Waout_0 = Import_0 = Export_0 = 0.
C18_NetProduction ==
    (variant \in Reservoir /\ HasCol("Pnet")) =>
        /\ \A k \in Hours : SumOfSources(k)
        /\ run.df.Pout[0] = run.df.Tout[0]
        /\ run.df.Pnet[0] = run.df.Tout[0] - cfg.constexp
        /\ Waout(0) = 0 /\ run.df.Import[0] = 0 /\ run.df.Export[0] = 0

\* A finished reservoir run with an hour of export and an hour of import,
\* and a row 0 whose demand is not its wind and baseload.
C18_Witness ==
    /\ variant \in Reservoir
    /\ run.pc = "done"
    /\ \E k \in Hours : run.df.Export[k] > 0
    /\ \E k \in Hours : run.df.Import[k] > 0 /\ run.log[k].rand_imp > 0
    /\ run.df.Tout[0] # MustRun(0)


\* The sum over all rows of max(Residual, 0) and of max(-Residual, 0).
PositivePart ==
    ColSum([k \in DOMAIN run.df.Residual |-> Max(run.df.Residual[k], 0)],
           DOMAIN run.df.Residual)

NegativePart ==
    ColSum([k \in DOMAIN run.df.Residual |-> Max(-run.df.Residual[k], 0)],
           DOMAIN run.df.Residual)

\* C19: at the end of the run, in every variant, curtail is the sum over all
\* hours of max(Residual_i, 0) and shortage the sum over all hours of
\* max(-Residual_i, 0); both are >= 0.
C19_CurtailAndShortage ==
    run.pc = "done" =>
        /\ run.curtail = PositivePart
        /\ run.shortage = NegativePart
        /\ run.curtail >= 0 /\ run.shortage >= 0

\* A finished run with an hour of excess, an hour of shortage and an hour in
\* balance after row 0.
C19_Witness ==
    /\ run.pc = "done"
    /\ run.curtail > 0
    /\ run.shortage > 0
    /\ \E k \in Hours : run.df.Residual[k] = 0


\* May 1 00:00 of 2020 (after 31 + 29 + 31 + 30 days) and of 2021 (after
\* 366 + 31 + 28 + 31 + 30 days), in hours since 1970-01-01.
May1_2020 == Epoch2020 + (31 + 29 + 31 + 30) * 24

May1_2021 == Epoch2020 + (366 + 31 + 28 + 31 + 30) * 24

\* C20: the hour-of-year index HoY lies in [0, 8783] for every whole-hour
\* timestamp of the 2020-2021 data and is 0 at May 1 00:00 of both years.
C20_HourOfYear ==
    HasCol("HoY") =>
        \A k \in DOMAIN run.df.HoY :
            /\ 0 <= run.df.HoY[k]
            /\ run.df.HoY[k] <= 8783
            /\ run.df.Date[k] \in {May1_2020, May1_2021} => run.df.HoY[k] = 0


\* The imp/exp balance equations of the reservoir script that runs.
impexp(v, c, wind, con, load, water) ==
    IF v = "SE300wind" THEN SE300wind_impexp(c, wind, con, load, water)
    ELSE SwedenPowerBalance_impexp(c, wind, con, load, water)

\* In the run r, hour k: hydro plus import is what it was before the
\* exchange, and Export is what the balance equations set.
Substituted(r, k) ==
    /\ r.df.Waout[k] + r.df.Import[k] = r.log[k].water0 + r.log[k].imp0
    /\ r.df.Export[k] =
           impexp(variant, cfg, r.df.Wind[k], r.df.Nuclear[k], r.df.Tout[k],
                  r.log[k].water0).exp

\* The two runs wrote the same Pout, Pnet and Residual for hour k.
SameOutput(k) ==
    /\ run.df.Pout[k] = twin.df.Pout[k]
    /\ run.df.Pnet[k] = twin.df.Pnet[k]
    /\ ("Residual" \in DOMAIN run.df /\ "Residual" \in DOMAIN twin.df) =>
           run.df.Residual[k] = twin.df.Residual[k]

\* C21 as stated: in both reservoir variants, for every hour i >= 1 and
\* every random draw, hydro + import is the same before and after the
\* exchange and Export is untouched, and Pout_i, Pnet_i and Residual_i are
\* the same whatever the random stream.
C21_Original ==
    variant \in Reservoir =>
        \A k \in Hours :
            /\ Substituted(run, k)
            /\ Substituted(twin, k)
            /\ SameOutput(k)

\* C21, amended: for every hour i >= 1 and every random draw, hydro + import
\* is the same before and after the exchange and Export is untouched, so
\* Pout_i, Pnet_i and Residual_i do not depend on the draw of hour i: two
\* runs on different random streams that have the same Store_{i-1} write
\* the same Pout_i, Pnet_i and Residual_i.
C21_PureSubstitution ==
    variant \in Reservoir =>
        \A k \in Hours :
            /\ Substituted(run, k)
            /\ Substituted(twin, k)
            /\ run.df.Store[k - 1] = twin.df.Store[k - 1] => SameOutput(k)

\* Two finished runs that, from the same reservoir level, exchanged
\* different amounts of water for import in some hour, and started a later
\* hour from different levels.
C21_Witness ==
    /\ variant \in Reservoir
    /\ run.pc = "done" /\ twin.pc = "done"
    /\ \E k \in Hours :
          /\ run.df.Store[k - 1] = twin.df.Store[k - 1]
          /\ run.log[k].rand_imp > 0 /\ twin.log[k].rand_imp > 0
          /\ run.df.Waout[k] # twin.df.Waout[k]
          /\ run.df.Import[k] # twin.df.Import[k]
    /\ \E k \in Hours : run.df.Store[k - 1] # twin.df.Store[k - 1]


\* The balance of hour k after hydro dispatch, before flexible load,
\* import, export and store flows: wind + baseload + hydro - demand, with
\* the hydro output and the demand as the loop of balance() had them then.
AfterHydro(k) == MustRun(k) + run.log[k].water0 - run.log[k].load

\* C22: in every variant and every hour i >= 1, if wind + baseload + hydro
\* >= demand after hydro dispatch then Residual_i >= 0, and otherwise
\* Residual_i <= 0.
C22_NoOvershoot ==
    HasCol("Residual") =>
        \A k \in Hours \cap DOMAIN run.df.Residual :
            /\ AfterHydro(k) >= 0 => run.df.Residual[k] >= 0
            /\ AfterHydro(k) < 0 => run.df.Residual[k] <= 0

\* A finished run with an hour of surplus that export and the flexible
\* resources leave in excess, an hour of deficit they leave in shortage,
\* and an hour of deficit they cover.
C22_Witness ==
    /\ run.pc = "done"
    /\ \E k \in Hours : AfterHydro(k) > 0 /\ run.df.Residual[k] > 0
    /\ \E k \in Hours : AfterHydro(k) < 0 /\ run.df.Residual[k] < 0
    /\ \E k \in Hours :
          /\ AfterHydro(k) < 0 /\ run.df.Residual[k] = 0
          /\ (run.df.Import[k] > 0 \/ run.log[k].flex > 0)


\* C23: in every variant and every hour of the output table, Import_i > 0
\* and Export_i > 0 never hold together; in the reservoir variants the
\* import the random exchange adds is counted.
C23_ImportExportExclusive ==
    \A k \in Hours \cup (IF HasCol("Import") THEN {0} ELSE {}) :
        ~(run.df.Import[k] > 0 /\ run.df.Export[k] > 0)


\* What the run r read for hour k: Wind, Heat and the Consumption of the
\* input table.
HourInput(r, k) == <<r.df.Wind[k], r.df.Heat[k], r.log[k].load>>

\* What the run r dispatched in hour k: hydro, import, export, the
\* reduction of the flexible load, the electrolyser load, the flow of the
\* deficit store and Pout.
Dispatch(r, k) ==
    <<r.df.Water[k], r.df.Import[k], r.df.Export[k], r.log[k].flex,
      r.log[k].eload, r.log[k].def_store, r.df.Pout[k]>>

\* C24: in the hydrogen variants two runs that read the same Wind, Heat and
\* Consumption for hour i dispatch hour i alike, whatever the store levels
\* (eStore, dStore) and the inputs of the hours before; the discharge is
\* not limited by the level of dStore.
C24_DispatchIsMemoryless ==
    variant \in HydrogenVariants =>
        \A k \in Hours :
            HourInput(run, k) = HourInput(twin, k) =>
                Dispatch(run, k) = Dispatch(twin, k)

\* Two runs of SvK_EF_wind.py that dispatched an hour of the same inputs
\* from different levels of both stores, one of them discharging from a
\* deficit store already below zero.
C24_Witness ==
    /\ variant = "SvK_EF_wind"
    /\ \E k \in Hours :
          /\ HourInput(run, k) = HourInput(twin, k)
          /\ run.df.eStore[k - 1] # twin.df.eStore[k - 1]
          /\ run.df.dStore[k - 1] # twin.df.dStore[k - 1]
          /\ twin.df.dStore[k - 1] < 0
          /\ run.df.dStore[k - 1] >= 0
          /\ twin.log[k].def_store < 0
          /\ twin.df.dStore[k] < twin.df.dStore[k - 1]


\* The last row of the eStore column.
LastHour == CHOOSE k \in DOMAIN run.df.eStore :
                \A m \in DOMAIN run.df.eStore : m <= k

\* C25: in the reservoir variants eStore_0 = 0, eStore_i = eStore_{i-1} +
\* Residual_i for every i >= 1, and after the last hour eStore equals
\* curtail - shortage.
C25_EnergyStoreRunningSum ==
    (variant \in Reservoir /\ HasCol("eStore")) =>
        /\ run.df.eStore[0] = 0
        /\ \A k \in (DOMAIN run.df.eStore) \ {0} :
               run.df.eStore[k] = run.df.eStore[k - 1] + run.df.Residual[k]
        /\ run.pc = "done" =>
               run.df.eStore[LastHour] = run.curtail - run.shortage

\* A finished reservoir run with excess and shortage that do not cancel.
C25_Witness ==
    /\ variant \in Reservoir
    /\ run.pc = "done"
    /\ LastHour = NumRows - 1
    /\ run.curtail > 0 /\ run.shortage > 0
    /\ run.df.eStore[LastHour] # 0

=============================================================================
